---- MODULE Spec2Model ----
(***************************************************************************)
(* The leak-reproduction demo: a three-entry route table, a router outlet  *)
(* that swaps page views, and the two renderer factories whose code the    *)
(* README quotes (the animation factory with its _rendererCache and the    *)
(* DOM factory that builds the delegate used as the cache key).            *)
(***************************************************************************)
EXTENDS Integers, Sequences, FiniteSets, TLC

\* ------------------------------------------------------------------ bounds
MaxNav == 5
MaxCalls == 3

\* ------------------------------------------------------- values and objects
\* null / undefined (an absent element, no parent)
Null == 0
\* the host element of the bootstrapped AppComponent; it holds the outlet
AppRootEl == 1
\* the object id of DomRendererFactory2.defaultRenderer
DefaultRendererOid == 2
\* the first object id handed out after construction
FirstFreeOid == 3

NullType == [id |-> "null", encapsulation |-> "null", data |-> "null"]

\* RendererType2 of a component: type.data is absent, present without an
\* 'animation' entry, or present with one
RendererType(id, encapsulation, data) ==
  [id |-> id, encapsulation |-> encapsulation, data |-> data]

NoRenderer == [kind |-> "none", oid |-> Null, hostEl |-> Null, compId |-> ""]

defaultRenderer ==
  [kind |-> "DefaultDomRenderer2", oid |-> DefaultRendererOid,
   hostEl |-> Null, compId |-> ""]

EmulatedEncapsulationDomRenderer2(oid, type) ==
  [kind |-> "EmulatedEncapsulationDomRenderer2", oid |-> oid,
   hostEl |-> Null, compId |-> type.id]

\* faulty variant: one ShadowDom renderer object serves every host
ShadowDomRendererShared(oid, element, type) ==
  [kind |-> "ShadowDomRenderer", oid |-> Null, hostEl |-> Null, compId |-> ""]

\* faulty variant: the ShadowDom renderer does not keep its host element
ShadowDomRendererNoHost(oid, element, type) ==
  [kind |-> "ShadowDomRenderer", oid |-> oid, hostEl |-> Null, compId |-> ""]

\* the ShadowDom renderer keeps the host element it was created for
ShadowDomRenderer(oid, element, type) ==
  [kind |-> "ShadowDomRenderer", oid |-> oid, hostEl |-> element, compId |-> ""]

BaseAnimationRenderer(oid, delegate) ==
  [kind |-> "BaseAnimationRenderer", oid |-> oid, delegate |-> delegate.oid]

AnimationRenderer(oid, delegate) ==
  [kind |-> "AnimationRenderer", oid |-> oid, delegate |-> delegate.oid]

ngDevMode == TRUE

\* ------------------------------------------------------------- route table
\* faulty variant: two components of the table exchanged
appRoutesExchanged ==
  << [path |-> "page-one", component |-> "PageTwoComponent"],
     [path |-> "page-two", component |-> "PageOneComponent"],
     [path |-> "page-three", component |-> "PageThreeComponent"] >>

appRoutes ==
  << [path |-> "page-one", component |-> "PageOneComponent"],
     [path |-> "page-two", component |-> "PageTwoComponent"],
     [path |-> "page-three", component |-> "PageThreeComponent"] >>

\* the components AppModule declares
declarations ==
  {"AppComponent", "ChildElementComponent", "PageOneComponent",
   "PageTwoComponent", "PageThreeComponent"}

\* the index of the first route of cfg whose path is the navigated path, 0 if none
RECURSIVE MatchFrom(_, _, _)
MatchFrom(cfg, path, i) ==
  IF i > Len(cfg) THEN 0
  ELSE IF cfg[i].path = path THEN i
  ELSE MatchFrom(cfg, path, i + 1)

Match(cfg, path) == MatchFrom(cfg, path, 1)

\* faulty variant: a matched route is consumed by the navigation
ConfigConsumed(cfg, path) == SelectSeq(cfg, LAMBDA r : r.path # path)

\* the configuration the router holds after a navigation: it only reads it
ConfigAfterNavigation(cfg, path) == cfg

\* ------------------------------------------------------- renderer factories
\* F is the factories' state threaded through one operation:
\*   byId    rendererByCompId (component id -> renderer)
\*   cache   _rendererCache (a set of <<delegate, renderer>> entries)
\*   warned  hasLoggedNativeEncapsulationWarning
\*   next    the next fresh object id
\*   log     the createRenderer calls of the operation, in order

\* faulty variant: the lookup compares the stored renderer with the delegate
CacheHasByValue(cache, delegate) == \E en \in cache : en[2] = delegate

\* Map.get / Map.has / Map.set on _rendererCache
CacheHas(cache, delegate) == \E en \in cache : en[1] = delegate
CacheGet(cache, delegate) == (CHOOSE en \in cache : en[1] = delegate)[2]
CacheSet(cache, delegate, renderer) ==
  {en \in cache : en[1] # delegate} \cup {<<delegate, renderer>>}

\* faulty variant: the ShadowDom case falls through to the default case
DomCreateRendererFallThrough(F, element, type) ==
  IF element = Null \/ type = NullType
  THEN [F |-> F, renderer |-> defaultRenderer]
  ELSE CASE type.encapsulation = "Emulated" ->
              IF type.id \in DOMAIN F.byId
              THEN [F |-> F, renderer |-> F.byId[type.id]]
              ELSE LET r == EmulatedEncapsulationDomRenderer2(F.next, type)
                   IN [F |-> [F EXCEPT !.byId = (type.id :> r) @@ @,
                                       !.next = @ + 1],
                       renderer |-> r]
         [] OTHER ->
              [F |-> IF type.id \in DOMAIN F.byId THEN F
                     ELSE [F EXCEPT !.byId = (type.id :> defaultRenderer) @@ @],
               renderer |-> defaultRenderer]

\* DomRendererFactory2.createRenderer(element, type): the delegate.
\* applyToHost only sets an attribute on the host element and is left out.
DomCreateRenderer(F, element, type) ==
  IF element = Null \/ type = NullType
  THEN [F |-> F, renderer |-> defaultRenderer]
  ELSE CASE type.encapsulation = "Emulated" ->
              IF type.id \in DOMAIN F.byId
              THEN [F |-> F, renderer |-> F.byId[type.id]]
              ELSE LET r == EmulatedEncapsulationDomRenderer2(F.next, type)
                   IN [F |-> [F EXCEPT !.byId = (type.id :> r) @@ @,
                                       !.next = @ + 1],
                       renderer |-> r]
         [] type.encapsulation \in {"Native", "ShadowDom"} ->
              [F |-> [F EXCEPT !.warned = @ \/ (ngDevMode /\ type.encapsulation = "Native"),
                               !.next = @ + 1],
               renderer |-> ShadowDomRenderer(F.next, element, type)]
         [] OTHER ->
              [F |-> IF type.id \in DOMAIN F.byId THEN F
                     ELSE [F EXCEPT !.byId = (type.id :> defaultRenderer) @@ @],
               renderer |-> defaultRenderer]

\* faulty variant: the animation entry is not looked at
UsesBaseRendererAlways(hostElement, type) == TRUE

\* whether the animation factory takes its base-renderer (cached) branch
UsesBaseRenderer(hostElement, type) ==
  \/ hostElement = Null
  \/ type = NullType
  \/ type.data = "absent"
  \/ type.data # "animation"

\* one entry of the call log
CallRecord(hostElement, type, delegate, renderer, lookup) ==
  [hostElement |-> hostElement, type |-> type, delegate |-> delegate,
   renderer |-> renderer, lookup |-> lookup]

\* the animation factory's createRenderer(hostElement, type)
CreateRenderer(F, hostElement, type) ==
  LET d == DomCreateRenderer(F, hostElement, type)
      G == d.F
      delegate == d.renderer
  IN IF UsesBaseRenderer(hostElement, type)
     THEN IF CacheHas(G.cache, delegate)
          THEN LET renderer == CacheGet(G.cache, delegate)
               IN [G EXCEPT !.log = Append(@, CallRecord(hostElement, type,
                                              delegate, renderer, "hit"))]
          ELSE LET renderer == BaseAnimationRenderer(G.next, delegate)
               IN [G EXCEPT !.cache = CacheSet(@, delegate, renderer),
                            !.next = @ + 1,
                            !.log = Append(@, CallRecord(hostElement, type,
                                              delegate, renderer, "miss"))]
     ELSE LET renderer == AnimationRenderer(G.next, delegate)
          IN [G EXCEPT !.next = @ + 1,
                       !.log = Append(@, CallRecord(hostElement, type,
                                         delegate, renderer, "none"))]

LastCall(F) == F.log[Len(F.log)]

\* ------------------------------------------------------------------- state
VARIABLES
  routes,        \* the route configuration the router holds
  url,           \* the path of the current router state ("" before any navigation)
  active,        \* the root element of the page view in the outlet, or Null
  heap,          \* the DOM elements in memory: id -> [parent, comp, delegate]
  rendererByCompId,
  rendererCache, \* _rendererCache
  cacheKind,     \* "Map", or "WeakMap" once the monkey patch is applied
  encapsulation, \* the ViewEncapsulation of each declared component
  hasLoggedNativeEncapsulationWarning,
  nextOid,       \* the next fresh object id
  calls,         \* the createRenderer calls of the last operation
  history,       \* the navigations so far: [path, component, outcome]
  ncalls         \* the number of direct createRenderer calls so far

vars ==
  << routes, url, active, heap, rendererByCompId, rendererCache, cacheKind,
     encapsulation, hasLoggedNativeEncapsulationWarning, nextOid, calls, history, ncalls >>

Paths == {"page-one", "page-two", "page-three", "page-four"}

\* ---------------------------------------------------- components and views
\* the encapsulations the declared components may have: the child element
\* uses ShadowDom, the other components do not
ComponentEncapsulations ==
  {f \in [declarations -> {"Emulated", "None", "ShadowDom"}] :
     \A comp \in declarations :
       (f[comp] = "ShadowDom") <=> (comp = "ChildElementComponent")}

\* no component of the demo sets an animation
TypeOf(comp) == RendererType(comp, encapsulation[comp], "noanimation")

\* the nodes of a page's template, in document order: a component name, or
\* "" for a plain element
Template(comp) ==
  CASE comp = "PageOneComponent" -> << "ChildElementComponent", "" >>
    [] comp = "PageTwoComponent" -> << "", "ChildElementComponent", "" >>
    [] comp = "PageThreeComponent" -> << "", "" >>
    [] OTHER -> << >>

\* the state an operation threads through the factories
Current ==
  [byId |-> rendererByCompId, cache |-> rendererCache,
   warned |-> hasLoggedNativeEncapsulationWarning, next |-> nextOid,
   log |-> << >>, heap |-> heap]

Install(S) ==
  /\ rendererByCompId' = S.byId
  /\ rendererCache' = S.cache
  /\ hasLoggedNativeEncapsulationWarning' = S.warned
  /\ nextOid' = S.next
  /\ calls' = S.log
  /\ heap' = S.heap

\* ----------------------------------------------------------- view creation
Element(parent, comp) == [parent |-> parent, comp |-> comp, delegate |-> NoRenderer]

\* createComponent -> componentFactory.create -> rendererFactory.createRenderer:
\* the host element is created under parent, then the component's renderer
CreateElement(S, parent, comp) ==
  LET el == S.next
      S1 == [S EXCEPT !.next = @ + 1,
                      !.heap = (el :> Element(parent, comp)) @@ @]
  IN IF comp = "" THEN S1
     ELSE LET S2 == CreateRenderer(S1, el, TypeOf(comp))
          IN [S2 EXCEPT !.heap[el].delegate = LastCall(S2).delegate]

RECURSIVE CreateNodes(_, _, _, _)
CreateNodes(S, parent, nodes, i) ==
  IF i > Len(nodes) THEN S
  ELSE CreateNodes(CreateElement(S, parent, nodes[i]), parent, nodes, i + 1)

\* the page component's host element in the outlet, then its template
CreateView(S, comp) ==
  CreateNodes(CreateElement(S, AppRootEl, comp), S.next, Template(comp), 1)

\* faulty variant: the outlet leaves the old page view in place
DetachPageSkipped(h, root) == h

\* the page view leaves the outlet: its root element is removed from its parent
DetachPage(h, root) ==
  IF root = Null THEN h ELSE [h EXCEPT ![root].parent = Null]

\* --------------------------------------------------------- DOM reachability
RECURSIVE TreeRoot(_, _)
TreeRoot(h, e) == IF h[e].parent = Null THEN e ELSE TreeRoot(h, h[e].parent)

Attached(h, e) == TreeRoot(h, e) = AppRootEl

\* faulty variant: the patch installs another strong Map
MonkeyPatchStrong == "Map"

\* the monkey patch replaces the cache by a WeakMap
MonkeyPatch == "WeakMap"

\* the delegates a cache keeps alive by itself: a Map holds its keys, a
\* WeakMap does not
HeldKeys(kind, cache) ==
  IF kind = "Map" THEN {en[1] : en \in cache} ELSE {}

\* the elements a renderer references
RendererElements(delegate) ==
  IF delegate.hostEl = Null THEN {} ELSE {delegate.hostEl}

\* the elements the garbage collector starts from
RootElements(h, kind, cache) ==
  ({AppRootEl} \cup UNION {RendererElements(d) : d \in HeldKeys(kind, cache)})
    \cap DOMAIN h

\* an element reaches its whole tree through parentNode and childNodes
Reachable(h, kind, cache) ==
  {e \in DOMAIN h :
     \E r \in RootElements(h, kind, cache) : TreeRoot(h, e) = TreeRoot(h, r)}

Detached(h) == {e \in DOMAIN h : ~Attached(h, e)}

\* detached elements the collector cannot free
Retained(h, kind, cache) == Reachable(h, kind, cache) \cap Detached(h)

\* a cache key that something other than the cache still references
KeyAlive(h, live, byId, delegate) ==
  \/ delegate = defaultRenderer
  \/ \E id \in DOMAIN byId : byId[id] = delegate
  \/ \E e \in live : h[e].delegate = delegate

\* the cache after a collection
CacheAfterGC(h, live, byId, kind, cache) ==
  IF kind = "Map" THEN cache
  ELSE {en \in cache : KeyAlive(h, live, byId, en[1])}

\* ------------------------------------------------------------------ actions
Bootstrap ==
  CreateRenderer(
    [byId |-> [id \in {} |-> NoRenderer], cache |-> {}, warned |-> FALSE,
     next |-> FirstFreeOid, log |-> << >>,
     heap |-> (AppRootEl :> Element(Null, "AppComponent"))],
    AppRootEl, TypeOf("AppComponent"))

InitWith(kind) ==
  /\ routes = appRoutes
  /\ encapsulation \in ComponentEncapsulations
  /\ url = ""
  /\ active = Null
  /\ heap = [Bootstrap.heap EXCEPT ![AppRootEl].delegate = LastCall(Bootstrap).delegate]
  /\ rendererByCompId = Bootstrap.byId
  /\ rendererCache = Bootstrap.cache
  /\ cacheKind = kind
  /\ hasLoggedNativeEncapsulationWarning = Bootstrap.warned
  /\ nextOid = Bootstrap.next
  /\ calls = Bootstrap.log
  /\ history = << >>
  /\ ncalls = 0

Init == InitWith("Map")

InitPatched == InitWith(MonkeyPatch)

Visit(path, component, outcome) ==
  [path |-> path, component |-> component, outcome |-> outcome]

\* a page change to a path of the route table
NavigateMatched(path) ==
  /\ Len(history) < MaxNav
  /\ path # url
  /\ Match(routes, path) # 0
  /\ LET component == routes[Match(routes, path)].component
         S == CreateView([Current EXCEPT !.heap = DetachPage(@, active)], component)
     IN /\ Install(S)
        /\ active' = nextOid
        /\ history' = Append(history, Visit(path, component, "activated"))
  /\ url' = path
  /\ routes' = ConfigAfterNavigation(routes, path)
  /\ UNCHANGED << cacheKind, encapsulation, ncalls >>

\* a path no route matches, the outlet ends up empty
NavigateUnmatchedEmpty(path) ==
  /\ Len(history) < MaxNav
  /\ path # url
  /\ Match(routes, path) = 0
  /\ heap' = DetachPage(heap, active)
  /\ active' = Null
  /\ url' = path
  /\ calls' = << >>
  /\ history' = Append(history, Visit(path, "", "empty"))
  /\ routes' = ConfigAfterNavigation(routes, path)
  /\ UNCHANGED << rendererByCompId, rendererCache, cacheKind, encapsulation,
                  hasLoggedNativeEncapsulationWarning, nextOid, ncalls >>

\* a path no route matches, the navigation is rejected and the view stays
NavigateUnmatchedRejected(path) ==
  /\ Len(history) < MaxNav
  /\ path # url
  /\ Match(routes, path) = 0
  /\ calls' = << >>
  /\ history' = Append(history, Visit(path, "", "rejected"))
  /\ routes' = ConfigAfterNavigation(routes, path)
  /\ UNCHANGED << url, active, heap, rendererByCompId, rendererCache, cacheKind,
                  encapsulation,
                  hasLoggedNativeEncapsulationWarning, nextOid, ncalls >>

\* the browser's garbage collector frees what nothing references
CollectGarbage ==
  LET live == Reachable(heap, cacheKind, rendererCache)
      cache == CacheAfterGC(heap, live, rendererByCompId, cacheKind, rendererCache)
  IN /\ live # DOMAIN heap \/ cache # rendererCache
     /\ heap' = [e \in live |-> heap[e]]
     /\ rendererCache' = cache
     /\ UNCHANGED << routes, url, active, rendererByCompId, cacheKind, encapsulation,
                     hasLoggedNativeEncapsulationWarning, nextOid, calls,
                     history, ncalls >>

\* the inputs of a direct createRenderer call
CallHosts == {Null, AppRootEl}

CallTypes ==
  {NullType} \cup
  {RendererType(enc, enc, data) :
     enc \in {"Emulated", "Native", "ShadowDom", "None"},
     data \in {"absent", "noanimation", "animation"}}

\* rendererFactory.createRenderer(hostElement, type) called on its own
CreateRendererCall(hostElement, type) ==
  /\ ncalls < MaxCalls
  /\ Install(CreateRenderer(Current, hostElement, type))
  /\ ncalls' = ncalls + 1
  /\ UNCHANGED << routes, url, active, cacheKind, encapsulation, history >>

Next ==
  \/ \E path \in Paths : NavigateMatched(path)
  \/ \E path \in Paths : NavigateUnmatchedEmpty(path)
  \/ \E path \in Paths : NavigateUnmatchedRejected(path)
  \/ CollectGarbage

NextFactory ==
  \E hostElement \in CallHosts, type \in CallTypes :
    CreateRendererCall(hostElement, type)

Spec == Init /\ [][Next]_vars

SpecPatched == InitPatched /\ [][Next]_vars

SpecFactory == Init /\ [][NextFactory]_vars

\* ------------------------------------------------- vocabulary of the claims
DefinedPaths == {"page-one", "page-two", "page-three"}

PageComponents == {"PageOneComponent", "PageTwoComponent", "PageThreeComponent"}

\* the routes table of the external interface
ExpectedComponent(path) ==
  CASE path = "page-one" -> "PageOneComponent"
    [] path = "page-two" -> "PageTwoComponent"
    [] path = "page-three" -> "PageThreeComponent"
    [] OTHER -> ""

\* the page components whose root element is in the live tree
RenderedPages ==
  {heap[e].comp : e \in {x \in DOMAIN heap :
                           Attached(heap, x) /\ heap[x].comp \in PageComponents}}

\* the root elements of page views in the live tree
AttachedPageRoots ==
  {e \in DOMAIN heap : Attached(heap, e) /\ heap[e].comp \in PageComponents}

\* the mounted child element instances whose renderer is a ShadowDom renderer
MountedShadowChildren ==
  {e \in DOMAIN heap :
     /\ Attached(heap, e)
     /\ heap[e].parent = active
     /\ heap[e].comp = "ChildElementComponent"
     /\ heap[e].delegate.kind = "ShadowDomRenderer"}

\* every mounted element rendered by a ShadowDom renderer
MountedShadowHosts ==
  {e \in DOMAIN heap :
     Attached(heap, e) /\ heap[e].delegate.kind = "ShadowDomRenderer"}

ActivePage == IF active = Null THEN "" ELSE heap[active].comp

VisitedPaths == {history[i].path : i \in 1..Len(history)}

PathsOf(h) == [i \in 1..Len(h) |-> h[i].path]

\* ------------------------------------------------------------------ claims

\* C1: navigating to 'page-one' renders PageOneComponent, to 'page-two'
\* PageTwoComponent and to 'page-three' PageThreeComponent: every navigation to
\* one of the three paths activates the expected component, and while that path
\* is the current one the expected page component is rendered and no other.
C1_RouteResolutionExact ==
  /\ \A i \in 1..Len(history) :
       history[i].path \in DefinedPaths =>
         /\ history[i].outcome = "activated"
         /\ history[i].component = ExpectedComponent(history[i].path)
  /\ url \in DefinedPaths =>
       /\ ActivePage = ExpectedComponent(url)
       /\ RenderedPages = {ExpectedComponent(url)}

C1_Witness ==
  /\ DefinedPaths \subseteq VisitedPaths
  /\ url = "page-two"
  /\ RenderedPages = {"PageTwoComponent"}

\* C2: after any sequence of navigations the active view is the page component
\* of the last defined path navigated to, at most one page component is active,
\* and the root element of no other page remains attached to the live tree.
C2_OnlyLastPageAttached ==
  /\ Cardinality(AttachedPageRoots) <= 1
  /\ AttachedPageRoots = (IF active = Null THEN {} ELSE {active})
  /\ (history # << >> /\ history[Len(history)].path \in DefinedPaths) =>
       /\ active # Null
       /\ heap[active].comp = ExpectedComponent(history[Len(history)].path)
       /\ \A e \in DOMAIN heap :
            (heap[e].comp \in PageComponents /\ e # active) => ~Attached(heap, e)

C2_Witness ==
  /\ PathsOf(history) =
       << "page-three", "page-one", "page-three", "page-two", "page-three" >>
  /\ ActivePage = "PageThreeComponent"
  /\ AttachedPageRoots = {active}
  /\ Cardinality({e \in DOMAIN heap : heap[e].comp \in PageComponents}) >= 3

\* C3: while Page One or Page Two is the active page exactly one
\* shadow-encapsulated child element instance is mounted, and while Page Three
\* is the active page none is.
C3_ShadowChildCount ==
  /\ ActivePage \in {"PageOneComponent", "PageTwoComponent"} =>
       /\ Cardinality(MountedShadowChildren) = 1
       /\ MountedShadowHosts = MountedShadowChildren
  /\ ActivePage = "PageThreeComponent" => MountedShadowHosts = {}

C3_Witness ==
  /\ ActivePage = "PageTwoComponent"
  /\ Cardinality(MountedShadowChildren) = 1
  /\ "page-three" \in VisitedPaths
  /\ "page-one" \in VisitedPaths

\* C4: no navigation, to a defined or an undefined path, changes the route
\* table, and the same path resolves to the same component every time.
C4_RouteTableImmutable ==
  /\ routes = appRoutes
  /\ \A i, j \in 1..Len(history) :
       history[i].path = history[j].path =>
         history[i].component = history[j].component

C4_Witness ==
  /\ \E i, j \in 1..Len(history) :
       /\ i + 1 < j
       /\ history[i].path = "page-one"
       /\ history[j].path = "page-one"
       /\ history[j].component = "PageOneComponent"
       /\ \E k \in (i + 1)..(j - 1) : history[k].path = "page-four"
  /\ routes = appRoutes

\* the entries of a call log
Calls(log) == {log[i] : i \in 1..Len(log)}

\* a step that is a navigation
NavigationStep == Len(history') = Len(history) + 1

\* the component a navigation step activates ("" when no route matched)
Activated == history'[Len(history')].component

\* a step of the garbage collector
CollectionStep ==
  history' = history /\ ncalls' = ncalls /\
  (heap' # heap \/ rendererCache' # rendererCache)

\* the cache entries whose key is a ShadowDom renderer
ShadowEntries(cache) == {en \in cache : en[1].kind = "ShadowDomRenderer"}

\* the number of page views with a ShadowDom child created so far
ShadowVisits(h) ==
  Cardinality({i \in 1..Len(h) :
                 h[i].component \in {"PageOneComponent", "PageTwoComponent"}})

\* the elements of the view rooted at root: root and its descendants
RECURSIVE InView(_, _, _)
InView(h, root, e) ==
  \/ e = root
  \/ h[e].parent # Null /\ InView(h, root, h[e].parent)

ViewElements(h, root) == {e \in DOMAIN h : InView(h, root, e)}

\* the page component at the root of the tree an element belongs to
PageOf(h, e) == h[TreeRoot(h, e)].comp

\* C6: for a ShadowDom component every createRenderer call builds a new
\* delegate, its lookup in _rendererCache misses and a new entry is added; each
\* navigation to Page One or Page Two adds at least one entry, and no step
\* removes an entry, so the cache holds at least one entry per such navigation.
C6_ShadowCacheGrows ==
  [][ /\ rendererCache \subseteq rendererCache'
      /\ NavigationStep =>
           /\ \A c \in Calls(calls') :
                (c.hostElement # Null /\ c.type.encapsulation = "ShadowDom") =>
                  /\ c.delegate.kind = "ShadowDomRenderer"
                  /\ c.delegate.oid >= nextOid
                  /\ ~CacheHas(rendererCache, c.delegate)
                  /\ c.lookup = "miss"
                  /\ <<c.delegate, c.renderer>> \in rendererCache'
           /\ Activated \in {"PageOneComponent", "PageTwoComponent"} =>
                Cardinality(rendererCache') >= Cardinality(rendererCache) + 1
           /\ Cardinality(ShadowEntries(rendererCache')) >= ShadowVisits(history')
    ]_vars

C6_Witness ==
  /\ Cardinality({i \in 1..Len(history) : history[i].path = "page-one"}) >= 2
  /\ "page-two" \in VisitedPaths
  /\ Cardinality(ShadowEntries(rendererCache)) >= 3
  /\ \E c \in Calls(calls) :
       c.type.encapsulation = "ShadowDom" /\ c.lookup = "miss"

\* C7: a Page Three view is never retained once detached, and a navigation to
\* Page Three adds no cache entry after the first visit: a component with
\* Emulated or default encapsulation gets the same delegate on every call, so
\* every later call hits the cache and returns the renderer stored there.
C7_PageThreeDoesNotLeak ==
  [][ /\ \A e \in Retained(heap', cacheKind', rendererCache') :
           PageOf(heap', e) # "PageThreeComponent"
      /\ NavigationStep =>
           /\ \A c \in Calls(calls') :
                (/\ c.hostElement # Null
                 /\ c.type.encapsulation \in {"Emulated", "None"}
                 /\ c.type.id \in DOMAIN rendererByCompId) =>
                  /\ c.delegate = rendererByCompId[c.type.id]
                  /\ c.lookup = "hit"
                  /\ <<c.delegate, c.renderer>> \in rendererCache
           /\ Activated = "PageThreeComponent" =>
                /\ Cardinality(rendererCache') <= Cardinality(rendererCache) + 1
                /\ "page-three" \in VisitedPaths =>
                     /\ rendererCache' = rendererCache
                     /\ \A c \in Calls(calls') : c.lookup = "hit"
    ]_vars

C7_Witness ==
  /\ Cardinality({i \in 1..Len(history) : history[i].path = "page-three"}) >= 2
  /\ url = "page-three"
  /\ history[Len(history)].path = "page-three"
  /\ calls # << >>
  /\ \A c \in Calls(calls) : c.lookup = "hit"
  /\ {e \in DOMAIN heap : heap[e].comp = "PageThreeComponent"} = {active}

\* C8: with the strong cache, when a Page One or Page Two view is left every
\* element of it stays reachable from the renderer cache although a single
\* element of the view has a ShadowDom renderer, and the set of retained
\* detached elements never loses an element.
C8_LeftPagesRetained ==
  [][ /\ Retained(heap, cacheKind, rendererCache)
           \subseteq Retained(heap', cacheKind', rendererCache')
      /\ (/\ active # Null
          /\ active' # active
          /\ heap[active].comp \in {"PageOneComponent", "PageTwoComponent"}) =>
           /\ ViewElements(heap, active)
                \subseteq Retained(heap', cacheKind', rendererCache')
           /\ Cardinality({e \in ViewElements(heap, active) :
                             heap[e].delegate.kind = "ShadowDomRenderer"}) = 1
           /\ Cardinality(ViewElements(heap, active)) > 1
    ]_vars

C8_Witness ==
  /\ url = "page-three"
  /\ \E e \in Retained(heap, cacheKind, rendererCache) :
       PageOf(heap, e) = "PageOneComponent" /\ heap[e].comp = ""
  /\ \E e \in Retained(heap, cacheKind, rendererCache) :
       PageOf(heap, e) = "PageTwoComponent" /\ heap[e].comp = ""
  /\ Cardinality(Retained(heap, cacheKind, rendererCache)) >= 10

\* C9: with the cache replaced by a WeakMap no detached element is kept alive
\* by the cache, and a run of the garbage collector removes every detached
\* element and every cache entry whose delegate belongs to a removed view.
C9_WeakCacheReleases ==
  [][ /\ Retained(heap', cacheKind', rendererCache') = {}
      /\ CollectionStep =>
           /\ Detached(heap') = {}
           /\ \A en \in rendererCache' :
                en[1].hostEl # Null =>
                  (en[1].hostEl \in DOMAIN heap' /\ Attached(heap', en[1].hostEl))
    ]_vars

C9_Witness ==
  /\ cacheKind = "WeakMap"
  /\ {"page-one", "page-two"} \subseteq VisitedPaths
  /\ Len(history) >= 4
  /\ url = "page-three"
  /\ Detached(heap) = {}
  /\ ShadowEntries(rendererCache) = {}

\* C10: a createRenderer call with hostElement, type, type.data and
\* type.data['animation'] all present neither reads nor changes _rendererCache;
\* any other call returns the renderer cached for its delegate when there is
\* one, and otherwise creates a base renderer and stores it under that delegate.
C10_OnlyBaseRenderersCached ==
  [][ ncalls' = ncalls + 1 =>
        LET c == calls'[1]
            custom == /\ c.hostElement # Null
                      /\ c.type # NullType
                      /\ c.type.data # "absent"
                      /\ c.type.data = "animation"
        IN /\ Len(calls') = 1
           /\ custom =>
                /\ c.lookup = "none"
                /\ rendererCache' = rendererCache
                /\ \A en \in rendererCache' : en[2] # c.renderer
           /\ ~custom =>
                IF \E en \in rendererCache : en[1] = c.delegate
                THEN /\ <<c.delegate, c.renderer>> \in rendererCache
                     /\ rendererCache' = rendererCache
                ELSE /\ c.renderer.kind = "BaseAnimationRenderer"
                     /\ c.renderer.delegate = c.delegate.oid
                     /\ c.renderer.oid >= nextOid
                     /\ rendererCache' =
                          rendererCache \cup {<<c.delegate, c.renderer>>}
    ]_vars

C10_Witness ==
  /\ ncalls >= 2
  /\ calls[1].lookup = "none"
  /\ calls[1].type.encapsulation = "ShadowDom"
  /\ Cardinality(ShadowEntries(rendererCache)) >= 1

====
